---- MODULE Spec2Model ----
(***************************************************************************)
(* The tool-registry and agentic-dispatch engine of the MCP web client     *)
(* (src/mcp_client_web.py): the process-wide MCPClientState, the Flask     *)
(* route handlers that run on request threads, and the coroutines they     *)
(* submit to the single background asyncio event loop.                     *)
(*                                                                         *)
(* Scheduling.  A route handler runs on its own request thread, so the     *)
(* steps of two handlers interleave freely.  A coroutine runs on the one   *)
(* event-loop thread: between two awaits it is not interleaved with any    *)
(* other coroutine, so every action of a coroutine below is one such       *)
(* segment.  The activity log (state.logs) is append-only and never read   *)
(* by the engine; it is left out.                                          *)
(***************************************************************************)
EXTENDS Integers, Sequences, FiniteSets, TLC

\* Server names a user may register; "default" is also the name connect-all
\* gives the config it adds when none is configured.
Names == {"default", "aux"}

\* Request threads of the front-end that may be busy at the same time.
Reqs == {"r1", "r2"}

\* Gateway round trips of one query the model follows.
MaxRounds == 3

\* Tool calls the gateway may request in one query, over all its responses.
MaxToolCalls == 3

\* Entries of the chat history beyond which no further query is followed.
MaxHistory == 2

\* Tool names the LLM may request; no server has "missing_tool".
RequestedTools == {"add_numbers", "missing_tool"}

\* The arguments string of a requested call: a dict literal, or text that
\* is none.
ArgTexts == {"{'a': 2}", "{'a': "}

\* The content of a final assistant message.
Contents == {"The answer is 5.", "Done."}

\* The tool catalog a server returns from list_tools.
Catalog(n) ==
    IF n = "default" THEN <<"echo", "add_numbers">>
    ELSE <<"get_weather_alerts", "add_numbers">>

VARIABLES
    server_configs,     \* state.server_configs: list of config dicts
    servers,            \* state.servers: insertion-ordered dict, as a list
    connected_servers,  \* state.connected_servers
    available_tools,    \* state.available_tools
    client,             \* state.client is not None
    has_key,            \* OPENAI_API_KEY is set in the environment
    orphans,            \* names with an open channel nothing refers to
    chat_history,       \* state.chat_history (roles)
    req,                \* per request slot: the handler and its coroutine
    ca,                 \* per request slot: locals of connect_all_async
    qs,                 \* per request slot: locals of process_query_async
    loop_owner          \* the coroutine that occupies the event loop

regvars == <<server_configs, servers, connected_servers, available_tools>>
vars == <<server_configs, servers, connected_servers, available_tools, client,
          has_key, orphans, chat_history, req, ca, qs, loop_owner>>

--------------------------------------------------------------------------
\* Values

NoResp == [status |-> "none", msg |-> "", data |-> <<>>]
Ok(m) == [status |-> "success", msg |-> m, data |-> <<>>]
Err(m) == [status |-> "error", msg |-> m, data |-> <<>>]

IdleReq ==
    [op |-> "idle", name |-> "", tpc |-> "idle", cpc |-> "none",
     held |-> FALSE, resp |-> NoResp]

NoCa == [list |-> <<>>, live |-> FALSE, idx |-> 0, results |-> <<>>]

\* messages, tools, tool_executions, loop_count: the locals of
\* process_query_async; calls, k: response_message.tool_calls and the place
\* of the for loop in it; invoked: the call_tool invocations made so far
\* (server, tool, call id, state of the session's channel at the call);
\* requested: the tool calls the gateway has requested so far; sent: the
\* tools argument of each gateway request made so far.
NoQs ==
    [messages |-> <<>>, tools |-> <<>>, tool_executions |-> <<>>,
     loop_count |-> 0, calls |-> <<>>, k |-> 0, invoked |-> <<>>,
     requested |-> 0, sent |-> <<>>]

--------------------------------------------------------------------------
\* Helpers over the registry

NamesOf(s) == {s[i].name : i \in DOMAIN s}

HasConfig(cfgs, n) == \E i \in DOMAIN cfgs : cfgs[i].name = n

InServers(sv, n) == \E i \in DOMAIN sv : sv[i].name = n

ServerOf(sv, n) == sv[CHOOSE i \in DOMAIN sv : sv[i].name = n]

InSeq(s, x) == \E i \in DOMAIN s : s[i] = x

RECURSIVE RemoveFirst(_, _)
RemoveFirst(s, x) ==
    IF s = <<>> THEN <<>>
    ELSE IF Head(s) = x THEN Tail(s)
    ELSE <<Head(s)>> \o RemoveFirst(Tail(s), x)

\* SetConnected that writes the flag of every config.
SetConnectedAll(cfgs, n, b) ==
    [i \in DOMAIN cfgs |-> [cfgs[i] EXCEPT !.connected = b]]

\* config['connected'] = b for every config named n
SetConnected(cfgs, n, b) ==
    [i \in DOMAIN cfgs |->
        IF cfgs[i].name = n THEN [cfgs[i] EXCEPT !.connected = b] ELSE cfgs[i]]

\* state.servers[n] = entry: a new key goes last, an old key keeps its place
PutServer(sv, entry) ==
    IF InServers(sv, entry.name)
    THEN [i \in DOMAIN sv |-> IF sv[i].name = entry.name THEN entry ELSE sv[i]]
    ELSE Append(sv, entry)

\* del state.servers[n]
DelServer(sv, n) == SelectSeq(sv, LAMBDA e : e.name # n)

Stamp(tools, n) == [i \in DOMAIN tools |-> [name |-> tools[i], server_name |-> n]]

\* rebuild_tools_list: the tools of every entry of state.servers, in the
\* dict's order, each stamped with the entry's key
RECURSIVE rebuild_tools_list(_)
rebuild_tools_list(sv) ==
    IF sv = <<>> THEN <<>>
    ELSE Stamp(Head(sv).tools, Head(sv).name) \o rebuild_tools_list(Tail(sv))

--------------------------------------------------------------------------
\* Channels.  A session and the exit stack that owns its channel are one
\* object; the entry of state.servers carries the channel's state (open,
\* closing: an aclose() is under way, closed).  A coroutine awaiting aclose()
\* holds the exit stack it read before the await: held says that stack is
\* still the one of the entry under its name.  A connect coroutine past
\* connect_open holds an open channel of its own.  An open channel that no
\* entry and no coroutine refers to any more stays open for good: its name
\* joins orphans.

\* The entry under n is replaced or deleted: whoever closes it holds it no more.
Detach(rq, n) ==
    [r \in Reqs |->
        IF rq[r].cpc = "dc_closing" /\ rq[r].name = n
        THEN [rq[r] EXCEPT !.held = FALSE] ELSE rq[r]]

\* The orphans after the entry under n is replaced or deleted.
Orphaned(sv, n) ==
    IF InServers(sv, n) /\ ServerOf(sv, n).st = "open"
    THEN orphans \cup {n} ELSE orphans

SetSt(sv, n, st) ==
    [i \in DOMAIN sv |-> IF sv[i].name = n THEN [sv[i] EXCEPT !.st = st] ELSE sv[i]]

--------------------------------------------------------------------------
\* connect_all_async iterates the list object state.server_configs named when
\* its loop began.  add_server appends to the current list object;
\* remove_server binds state.server_configs to a new list that holds the same
\* config dicts but the removed ones.  ca[r].list is the list object of r's
\* loop: live says it is still state.server_configs, shared (per entry) says
\* the dict is still in state.server_configs.

CaAppend(c, cfg) ==
    [r \in Reqs |->
        IF c[r].live THEN [c[r] EXCEPT !.list = Append(@, cfg)] ELSE c[r]]

CaRemove(c, n) ==
    [r \in Reqs |->
        [c[r] EXCEPT
            !.live = FALSE,
            !.list = [i \in DOMAIN @ |->
                        IF @[i].name = n THEN [@[i] EXCEPT !.shared = FALSE]
                        ELSE @[i]]]]

CaSetConnected(c, n, b) ==
    [r \in Reqs |->
        [c[r] EXCEPT
            !.list = [i \in DOMAIN @ |->
                        IF @[i].name = n /\ @[i].shared
                        THEN [@[i] EXCEPT !.connected = b] ELSE @[i]]]]

--------------------------------------------------------------------------
\* Request slots

Free(r) == req[r].tpc = "idle" /\ req[r].cpc = "none"

\* The response a handler builds from its coroutine's result.
RespOf(op, result) == IF op = "remove" THEN Ok("removed") ELSE result

\* A coroutine ends with result: the waiting handler returns it; a handler
\* whose deadline expired has returned already and the result is dropped.
Complete(q, result) ==
    IF q.tpc = "wait"
    THEN [q EXCEPT !.tpc = "done", !.cpc = "none", !.held = FALSE,
                   !.resp = RespOf(q.op, result)]
    ELSE IF q.tpc = "idle" THEN IdleReq
    ELSE [q EXCEPT !.cpc = "none", !.held = FALSE]

LoopFree == loop_owner = ""

Init ==
    /\ server_configs = <<>>
    /\ servers = <<>>
    /\ connected_servers = <<>>
    /\ available_tools = <<>>
    /\ client = FALSE
    /\ has_key \in BOOLEAN
    /\ orphans = {}
    /\ chat_history = <<>>
    /\ req = [r \in Reqs |-> IdleReq]
    /\ ca = [r \in Reqs |-> NoCa]
    /\ qs = [r \in Reqs |-> NoQs]
    /\ loop_owner = ""


--------------------------------------------------------------------------
\* Route handlers (request threads)

\* add_server_check without the duplicate check of lines 83-84.
add_server_no_check(r, n, valid) ==
    /\ Free(r)
    /\ req' = [req EXCEPT ![r] =
                [IdleReq EXCEPT
                    !.op = "add", !.name = n,
                    !.tpc = IF valid THEN "add_append" ELSE "done",
                    !.resp = IF ~valid THEN Err("required") ELSE NoResp]]
    /\ UNCHANGED <<regvars, client, has_key, orphans, chat_history, ca, qs,
                   loop_owner>>

\* add_server, lines 74-84: the validation and the duplicate check.
\* valid = FALSE is a request without a name or without a command.
add_server_check(r, n, valid) ==
    /\ Free(r)
    /\ req' = [req EXCEPT ![r] =
                [IdleReq EXCEPT
                    !.op = "add", !.name = n,
                    !.tpc = IF valid /\ ~HasConfig(server_configs, n)
                            THEN "add_append" ELSE "done",
                    !.resp = IF ~valid THEN Err("required")
                             ELSE IF HasConfig(server_configs, n)
                             THEN Err("exists") ELSE NoResp]]
    /\ UNCHANGED <<regvars, client, has_key, orphans, chat_history, ca, qs,
                   loop_owner>>

\* add_server, lines 86-96: the append.
add_server_append(r) ==
    /\ req[r].tpc = "add_append"
    /\ server_configs' =
          Append(server_configs, [name |-> req[r].name, connected |-> FALSE])
    /\ ca' = CaAppend(ca, [name |-> req[r].name, connected |-> FALSE,
                           shared |-> TRUE])
    /\ req' = [req EXCEPT ![r].tpc = "done", ![r].resp = Ok("added")]
    /\ UNCHANGED <<servers, connected_servers, available_tools, client,
                   has_key, orphans, chat_history, qs, loop_owner>>

\* remove_server, lines 102-105: the config is filtered out first.
remove_server_filter(r, n) ==
    /\ Free(r)
    /\ server_configs' = SelectSeq(server_configs, LAMBDA c : c.name # n)
    /\ ca' = CaRemove(ca, n)
    /\ req' = [req EXCEPT ![r] =
                [IdleReq EXCEPT !.op = "remove", !.name = n,
                                !.tpc = "rm_check"]]
    /\ UNCHANGED <<servers, connected_servers, available_tools, client,
                   has_key, orphans, chat_history, qs, loop_owner>>

\* remove_server, lines 107-115: disconnect if the name has a live session.
remove_server_check(r) ==
    /\ req[r].tpc = "rm_check"
    /\ req' = [req EXCEPT ![r] =
                IF InServers(servers, req[r].name)
                THEN [@ EXCEPT !.tpc = "wait", !.cpc = "dc_start"]
                ELSE [@ EXCEPT !.tpc = "done", !.resp = Ok("removed")]]
    /\ UNCHANGED <<regvars, client, has_key, orphans, chat_history, ca, qs,
                   loop_owner>>

\* connect_server, lines 121-133.  named = FALSE is a request without a name.
connect_server(r, n, named) ==
    /\ Free(r)
    /\ req' = [req EXCEPT ![r] =
                IF ~named
                THEN [IdleReq EXCEPT !.op = "connect", !.tpc = "done",
                                     !.resp = Err("name_required")]
                ELSE IF ~HasConfig(server_configs, n)
                THEN [IdleReq EXCEPT !.op = "connect", !.name = n,
                                     !.tpc = "done", !.resp = Err("not_found")]
                ELSE [IdleReq EXCEPT !.op = "connect", !.name = n,
                                     !.tpc = "wait", !.cpc = "cs_open"]]
    /\ UNCHANGED <<regvars, client, has_key, orphans, chat_history, ca, qs,
                   loop_owner>>

\* disconnect_server, lines 144-149.
disconnect_server(r, n) ==
    /\ Free(r)
    /\ req' = [req EXCEPT ![r] =
                [IdleReq EXCEPT !.op = "disconnect", !.name = n,
                                !.tpc = "wait", !.cpc = "dc_start"]]
    /\ UNCHANGED <<regvars, client, has_key, orphans, chat_history, ca, qs,
                   loop_owner>>

\* connect, lines 160.
connect(r) ==
    /\ Free(r)
    /\ req' = [req EXCEPT ![r] =
                [IdleReq EXCEPT !.op = "connect_all", !.tpc = "wait",
                                !.cpc = "ca_start"]]
    /\ UNCHANGED <<regvars, client, has_key, orphans, chat_history, ca, qs,
                   loop_owner>>

\* future.result(timeout=...) expires while the coroutine is still running:
\* the handler answers with an error (remove_server: an unhandled
\* TimeoutError) and the coroutine goes on.
Timeout(r) ==
    /\ req[r].tpc = "wait"
    /\ req[r].cpc # "none"
    /\ req' = [req EXCEPT ![r].tpc = "done", ![r].resp = Err("timeout")]
    /\ UNCHANGED <<regvars, client, has_key, orphans, chat_history, ca, qs,
                   loop_owner>>

\* The response has been sent; the request thread is free again.
Finish(r) ==
    /\ req[r].tpc = "done"
    /\ req' = [req EXCEPT ![r] =
                IF @.cpc = "none" THEN IdleReq
                ELSE [@ EXCEPT !.tpc = "idle", !.resp = NoResp]]
    /\ qs' = IF req[r].cpc = "none" THEN [qs EXCEPT ![r] = NoQs] ELSE qs
    /\ ca' = IF req[r].cpc = "none" THEN [ca EXCEPT ![r] = NoCa] ELSE ca
    /\ UNCHANGED <<regvars, client, has_key, orphans, chat_history,
                   loop_owner>>
--------------------------------------------------------------------------
\* Coroutines (event loop)

\* Removal without line 258: the aggregated list is not rebuilt.
RemovalNoRebuild(n) ==
    /\ servers' = DelServer(servers, n)
    /\ connected_servers' =
          IF InSeq(connected_servers, n) THEN RemoveFirst(connected_servers, n)
          ELSE connected_servers
    /\ server_configs' = SetConnected(server_configs, n, FALSE)
    /\ available_tools' = available_tools

\* The registry after lines 247-258 of disconnect_server_async for name n.
Removal(n) ==
    /\ servers' = DelServer(servers, n)
    /\ connected_servers' =
          IF InSeq(connected_servers, n) THEN RemoveFirst(connected_servers, n)
          ELSE connected_servers
    /\ server_configs' = SetConnected(server_configs, n, FALSE)
    /\ available_tools' = rebuild_tools_list(DelServer(servers, n))

\* disconnect_server_async, lines 244-246, up to the await of aclose().
\* An exit stack that is already being closed, or was closed, has no
\* callback left: aclose() returns at once and lines 247-261 follow.
disconnect_begin(r) ==
    /\ req[r].cpc = "dc_start"
    /\ LoopFree
    /\ LET n == req[r].name IN
       IF ~InServers(servers, n)
       THEN /\ req' = [req EXCEPT ![r] = Complete(@, Err("not_connected"))]
            /\ UNCHANGED <<regvars, ca>>
       ELSE IF ServerOf(servers, n).st = "open"
       THEN /\ servers' = SetSt(servers, n, "closing")
            /\ req' = [req EXCEPT ![r].cpc = "dc_closing", ![r].held = TRUE]
            /\ UNCHANGED <<server_configs, connected_servers, available_tools,
                           ca>>
       ELSE /\ Removal(n)
            /\ ca' = CaSetConnected(ca, n, FALSE)
            /\ req' = [Detach(req, n) EXCEPT
                         ![r] = Complete(@, Ok("disconnected"))]
    /\ UNCHANGED <<client, has_key, orphans, chat_history, qs, loop_owner>>

\* disconnect_server_async resumes from aclose(): the channel is closed.
\* ok = FALSE: aclose() raised (the stack has run its callbacks all the
\* same), line 264.  The del of line 247 deletes whatever entry the name has
\* now, and raises KeyError when the name left state.servers during the await.
disconnect_end(r, ok) ==
    /\ req[r].cpc = "dc_closing"
    /\ LoopFree
    /\ LET n == req[r].name IN
       IF ok /\ InServers(servers, n)
       THEN /\ Removal(n)
            /\ ca' = CaSetConnected(ca, n, FALSE)
            /\ orphans' = IF req[r].held THEN orphans ELSE Orphaned(servers, n)
            /\ req' = [Detach(req, n) EXCEPT
                         ![r] = Complete(req[r], Ok("disconnected"))]
       ELSE /\ req' = [req EXCEPT ![r] = Complete(@, Err("exception"))]
            /\ servers' = IF req[r].held THEN SetSt(servers, n, "closed")
                          ELSE servers
            /\ UNCHANGED <<server_configs, connected_servers, available_tools,
                           orphans, ca>>
    /\ UNCHANGED <<client, has_key, chat_history, qs, loop_owner>>

\* The dict connect_server_async returns at lines 230-235.
Connected(n) ==
    [status |-> "success", msg |-> "connected",
     data |-> <<n, Len(Catalog(n))>>]

\* The dict connect_all_async returns at lines 301-306.
ConnectedAll(cs, at) ==
    [status |-> "success", msg |-> "connected_all", data |-> <<cs, Len(at)>>]

\* The locals of connect_all_async when it returns: results lives on until
\* the response is sent.
CaDone(rq, c, r) ==
    [c EXCEPT ![r] = IF rq[r].tpc = "idle" THEN NoCa
                     ELSE [NoCa EXCEPT !.results = c[r].results]]

\* connect_all_next that leaves the loop after a connect that failed.
connect_all_stop(r, rq, c, cs, at) ==
    LET lst == c[r].list
        res == c[r].results
        J == {j \in (c[r].idx + 1)..Len(lst) : ~lst[j].connected}
    IN
    IF J # {} /\ (res = <<>> \/ res[Len(res)].result.status = "success")
    THEN LET j == CHOOSE j \in J : \A i \in J : j <= i IN
         /\ req' = [rq EXCEPT ![r].cpc = "ca_open", ![r].name = lst[j].name]
         /\ ca' = [c EXCEPT ![r].idx = j]
    ELSE /\ req' = [rq EXCEPT ![r] = Complete(@, ConnectedAll(cs, at))]
         /\ ca' = CaDone(rq, c, r)

\* connect_all_async, lines 294-306: go on to the next config of the loop's
\* list whose connected flag is false and start its connect, or return.
\* rq is req, c is ca and cs, at are the connected list and the tool list as
\* the finished segment leaves them.
connect_all_next(r, rq, c, cs, at) ==
    LET lst == c[r].list
        J == {j \in (c[r].idx + 1)..Len(lst) : ~lst[j].connected}
    IN
    IF J # {}
    THEN LET j == CHOOSE j \in J : \A i \in J : j <= i IN
         /\ req' = [rq EXCEPT ![r].cpc = "ca_open", ![r].name = lst[j].name]
         /\ ca' = [c EXCEPT ![r].idx = j]
    ELSE /\ req' = [rq EXCEPT ![r] = Complete(@, ConnectedAll(cs, at))]
         /\ ca' = CaDone(rq, c, r)

\* connect_server_async returns result: to the handler of /servers/connect,
\* or into connect_all_async's loop (line 296-297), which appends it to
\* results; name is the config the result is of.
connect_return(r, rq, result, c, cs, at) ==
    IF req[r].op = "connect_all"
    THEN connect_all_next(r, rq,
                          [c EXCEPT ![r].results =
                              Append(@, [name |-> req[r].name,
                                         result |-> result])],
                          cs, at)
    ELSE /\ req' = [rq EXCEPT ![r] = Complete(@, result)]
         /\ ca' = c

\* connect_all_async, lines 270-297, up to the first await.
connect_all_begin(r) ==
    /\ req[r].cpc = "ca_start"
    /\ LoopFree
    /\ IF ~has_key
       THEN /\ req' = [req EXCEPT ![r] = Complete(@, Err("no_api_key"))]
            /\ UNCHANGED <<server_configs, client, ca>>
       ELSE LET cfgs == IF server_configs = <<>>
                        THEN <<[name |-> "default", connected |-> FALSE]>>
                        ELSE server_configs
                c1 == IF server_configs = <<>>
                      THEN CaAppend(ca, [name |-> "default",
                                         connected |-> FALSE, shared |-> TRUE])
                      ELSE ca
                mine == [list |-> [i \in DOMAIN cfgs |->
                                    [name |-> cfgs[i].name,
                                     connected |-> cfgs[i].connected,
                                     shared |-> TRUE]],
                         live |-> TRUE, idx |-> 0, results |-> <<>>]
            IN
            /\ client' = TRUE
            /\ server_configs' = cfgs
            /\ connect_all_next(r, req, [c1 EXCEPT ![r] = mine],
                                connected_servers, available_tools)
    /\ UNCHANGED <<servers, connected_servers, available_tools, has_key,
                   orphans, chat_history, qs, loop_owner>>

\* connect_server_async resumes from entering stdio_client (line 184): the
\* coroutine's exit stack holds an open channel.  ok = FALSE: the process
\* could not be started, line 237.
connect_open(r, ok) ==
    /\ req[r].cpc \in {"cs_open", "ca_open"}
    /\ LoopFree
    /\ IF ok
       THEN /\ req' = [req EXCEPT
                         ![r].cpc = IF @ = "cs_open" THEN "cs_init" ELSE "ca_init"]
            /\ ca' = ca
       ELSE connect_return(r, req, Err("exception"), ca, connected_servers,
                           available_tools)
    /\ UNCHANGED <<regvars, client, has_key, orphans, chat_history, qs,
                   loop_owner>>

\* connect_server_async resumes from the session being entered, initialize()
\* and list_tools() (lines 188-196) and stores the server (lines 212-235).
\* ok = FALSE: one of them raised, line 237; nothing closes the exit stack.
connect_init(r, ok) ==
    /\ req[r].cpc \in {"cs_init", "ca_init"}
    /\ LoopFree
    /\ LET n == req[r].name
           sv == PutServer(servers, [name |-> n, st |-> "open",
                                     tools |-> Catalog(n)])
           cs == IF InSeq(connected_servers, n) THEN connected_servers
                 ELSE Append(connected_servers, n)
       IN
       IF ok
       THEN /\ servers' = sv
            /\ server_configs' = SetConnected(server_configs, n, TRUE)
            /\ connected_servers' = cs
            /\ available_tools' = rebuild_tools_list(sv)
            /\ orphans' = Orphaned(servers, n)
            /\ connect_return(r, Detach(req, n), Connected(n),
                              CaSetConnected(ca, n, TRUE), cs,
                              rebuild_tools_list(sv))
       ELSE /\ connect_return(r, req, Err("exception"), ca, connected_servers,
                              available_tools)
            /\ orphans' = orphans \cup {n}
            /\ UNCHANGED regvars
    /\ UNCHANGED <<client, has_key, chat_history, qs, loop_owner>>

--------------------------------------------------------------------------
\* The registry with its handlers and coroutines

RegistryNext ==
    \/ \E r \in Reqs, n \in Names, b \in BOOLEAN : add_server_check(r, n, b)
    \/ \E r \in Reqs : add_server_append(r)
    \/ \E r \in Reqs, n \in Names : remove_server_filter(r, n)
    \/ \E r \in Reqs : remove_server_check(r)
    \/ \E r \in Reqs, n \in Names, b \in BOOLEAN : connect_server(r, n, b)
    \/ \E r \in Reqs, n \in Names : disconnect_server(r, n)
    \/ \E r \in Reqs : connect(r)
    \/ \E r \in Reqs : connect_all_begin(r)
    \/ \E r \in Reqs, ok \in BOOLEAN : connect_open(r, ok)
    \/ \E r \in Reqs, ok \in BOOLEAN : connect_init(r, ok)
    \/ \E r \in Reqs : disconnect_begin(r)
    \/ \E r \in Reqs, ok \in BOOLEAN : disconnect_end(r, ok)
    \/ \E r \in Reqs : Timeout(r)
    \/ \E r \in Reqs : Finish(r)

RegistrySpec == Init /\ [][RegistryNext]_vars

\* One request at a time: the engine as a front-end drives it that sends the
\* next request when the last one was answered.
SeqRegistryNext ==
    \/ \E n \in Names, b \in BOOLEAN : add_server_check("r1", n, b)
    \/ add_server_append("r1")
    \/ \E n \in Names : remove_server_filter("r1", n)
    \/ remove_server_check("r1")
    \/ \E n \in Names, b \in BOOLEAN : connect_server("r1", n, b)
    \/ \E n \in Names : disconnect_server("r1", n)
    \/ connect("r1")
    \/ connect_all_begin("r1")
    \/ \E ok \in BOOLEAN : connect_open("r1", ok)
    \/ \E ok \in BOOLEAN : connect_init("r1", ok)
    \/ disconnect_begin("r1")
    \/ \E ok \in BOOLEAN : disconnect_end("r1", ok)
    \/ Finish("r1")

Spec == Init /\ [][SeqRegistryNext]_vars
--------------------------------------------------------------------------
\* The dispatch loop: send_message and process_query_async

UserTurn == [role |-> "user", content |-> "query", id |-> 0, name |-> "",
             calls |-> <<>>]

\* response.choices[0].message as appended at line 420
AssistantTurn(content, calls) ==
    [role |-> "assistant", content |-> content, id |-> 0, name |-> "",
     calls |-> calls]

\* the dicts appended at lines 452-457 and 482-487
ToolTurn(id, name, content) ==
    [role |-> "tool", content |-> content, id |-> id, name |-> name,
     calls |-> <<>>]

\* eval(tool_call.function.arguments), line 437
Eval(text) ==
    IF text = "{'a': 2}" THEN [ok |-> TRUE, value |-> <<"a", 2>>]
    ELSE [ok |-> FALSE, value |-> <<>>]

\* next((t for t in state.available_tools if t.name == tool_name), None),
\* line 448: the place of the first match in the list, 0 for None.
FindTool(at, tool_name) ==
    LET M == {i \in DOMAIN at : at[i].name = tool_name} IN
    IF M = {} THEN 0 ELSE CHOOSE i \in M : \A j \in M : i <= j

\* The tool calls one gateway response may carry: each a tool name of T
\* with an arguments string of A.
CallLists(T, A) ==
    UNION {[1..len -> T \X A] : len \in 1..MaxToolCalls}

MakeCalls(round, l) ==
    [i \in DOMAIN l |->
        [id |-> 10 * round + i, name |-> l[i][1], arguments |-> l[i][2]]]

\* What the handler of /send answers from the coroutine's result.
QueryOk(content, execs) ==
    [status |-> "success", msg |-> content, data |-> execs]

\* process_query_async returns result: the locals live on until the
\* response is sent.
QueryEnd(r, q, result) ==
    /\ req' = [req EXCEPT ![r] = Complete(@, result)]
    /\ qs' = [qs EXCEPT ![r] = IF req[r].tpc = "idle" THEN NoQs ELSE q]
    /\ loop_owner' = ""

\* send_message without the test of lines 326-327.
send_message_no_check(r, empty) ==
    /\ Free(r)
    /\ Len(chat_history) < MaxHistory
    /\ IF empty
       THEN /\ req' = [req EXCEPT ![r] =
                        [IdleReq EXCEPT !.op = "send", !.tpc = "done",
                                        !.resp = Err("empty_message")]]
            /\ chat_history' = chat_history
       ELSE /\ req' = [req EXCEPT ![r] =
                        [IdleReq EXCEPT !.op = "send", !.tpc = "wait",
                                        !.cpc = "pq_start"]]
            /\ chat_history' = Append(chat_history, "user")
    /\ UNCHANGED <<regvars, client, has_key, orphans, ca, qs, loop_owner>>

\* MCPClientGUI.send_message of the desktop front-end: an empty input is
\* dropped, an input while self.connected is false gets the warning box,
\* any other is shown in the chat and handed to process_query_async.
gui_send_message(connected, empty) ==
    IF empty THEN "ignored"
    ELSE IF ~connected THEN "warning"
    ELSE "submitted"

\* send_message, lines 326-338.  empty = TRUE is a request with no message.
send_message(r, empty) ==
    /\ Free(r)
    /\ Len(chat_history) < MaxHistory
    /\ IF Len(connected_servers) = 0
       THEN /\ req' = [req EXCEPT ![r] =
                        [IdleReq EXCEPT !.op = "send", !.tpc = "done",
                                        !.resp = Err("not_connected")]]
            /\ chat_history' = chat_history
       ELSE IF empty
       THEN /\ req' = [req EXCEPT ![r] =
                        [IdleReq EXCEPT !.op = "send", !.tpc = "done",
                                        !.resp = Err("empty_message")]]
            /\ chat_history' = chat_history
       ELSE /\ req' = [req EXCEPT ![r] =
                        [IdleReq EXCEPT !.op = "send", !.tpc = "wait",
                                        !.cpc = "pq_start"]]
            /\ chat_history' = Append(chat_history, "user")
    /\ UNCHANGED <<regvars, client, has_key, orphans, ca, qs, loop_owner>>

\* The tool schemas built from a tool list, lines 358-369: the names stand
\* for the schemas.
ToolSchemas(at) == [i \in DOMAIN at |-> at[i].name]

\* process_query_async, lines 349-378: the transcript, the tool schemas and
\* the execution log are set up; the coroutine holds the event loop until
\* its first await.
query_begin(r) ==
    /\ req[r].cpc = "pq_start"
    /\ LoopFree
    /\ qs' = [qs EXCEPT ![r] =
                [NoQs EXCEPT
                    !.messages = <<UserTurn>>,
                    !.tools = ToolSchemas(available_tools)]]
    /\ req' = [req EXCEPT ![r].cpc = "pq_request"]
    /\ loop_owner' = r
    /\ UNCHANGED <<regvars, client, has_key, orphans, chat_history, ca>>

\* A request that sends the schemas of state.available_tools as it is now.
RequestToolsLive(q) == ToolSchemas(available_tools)

\* The tools argument of a gateway request, line 399: the list built once at
\* lines 358-369 (None when it is empty).
RequestTools(q) == q.tools

\* query_gateway_error that also empties the aggregated list.
query_gateway_error_reset(r) ==
    /\ req[r].cpc = "pq_request"
    /\ loop_owner = r
    /\ qs[r].loop_count < MaxRounds
    /\ QueryEnd(r, [qs[r] EXCEPT !.loop_count = @ + 1], Err("exception"))
    /\ available_tools' = <<>>
    /\ UNCHANGED <<server_configs, servers, connected_servers, client,
                   has_key, orphans, chat_history, ca>>

\* lines 380-400: the gateway call raises (state.client is None: nothing is
\* sent; or the call fails) and line 489 ends the query.
query_gateway_error(r) ==
    /\ req[r].cpc = "pq_request"
    /\ loop_owner = r
    /\ qs[r].loop_count < MaxRounds
    /\ QueryEnd(r, [qs[r] EXCEPT
                      !.loop_count = @ + 1,
                      !.sent = IF client THEN Append(@, RequestTools(qs[r]))
                               ELSE @],
                Err("exception"))
    /\ UNCHANGED <<regvars, client, has_key, orphans, chat_history, ca>>

\* query_final without the return of lines 422-432: the loop goes round.
query_final_no_return(r, content) ==
    /\ req[r].cpc = "pq_request"
    /\ loop_owner = r
    /\ qs[r].loop_count < MaxRounds
    /\ client
    /\ qs' = [qs EXCEPT ![r] =
                [@ EXCEPT !.loop_count = @ + 1,
                          !.messages = Append(@, AssistantTurn(content, <<>>))]]
    /\ UNCHANGED <<regvars, client, has_key, orphans, chat_history, ca, req,
                   loop_owner>>

\* lines 380-432: the gateway answers with content and no tool calls.
query_final(r, content) ==
    /\ req[r].cpc = "pq_request"
    /\ loop_owner = r
    /\ qs[r].loop_count < MaxRounds
    /\ client
    /\ chat_history' = Append(chat_history, "assistant")
    /\ QueryEnd(r, [qs[r] EXCEPT
                      !.loop_count = @ + 1,
                      !.sent = Append(@, RequestTools(qs[r])),
                      !.messages = Append(@, AssistantTurn(content, <<>>))],
                QueryOk(content, qs[r].tool_executions))
    /\ UNCHANGED <<regvars, client, has_key, orphans, ca>>

\* lines 380-435: the gateway answers with tool calls; their ids are
\* unique in the query.
query_tool_calls(r, l) ==
    /\ req[r].cpc = "pq_request"
    /\ loop_owner = r
    /\ qs[r].loop_count < MaxRounds
    /\ qs[r].requested + Len(l) <= MaxToolCalls
    /\ client
    /\ LET calls == MakeCalls(qs[r].loop_count + 1, l) IN
       qs' = [qs EXCEPT ![r] =
                [@ EXCEPT !.loop_count = @ + 1,
                          !.sent = Append(@, RequestTools(qs[r])),
                          !.requested = @ + Len(l),
                          !.messages = Append(@, AssistantTurn("", calls)),
                          !.calls = calls,
                          !.k = 1]]
    /\ req' = [req EXCEPT ![r].cpc = "pq_dispatch"]
    /\ UNCHANGED <<regvars, client, has_key, orphans, chat_history, ca,
                   loop_owner>>

\* NextCall that goes from call k straight to the last call.
NextCallSkip(q) ==
    IF q.k < Len(q.calls) THEN [q EXCEPT !.k = Len(q.calls)]
    ELSE [q EXCEPT !.k = 0]

\* The for loop of line 435 moves on from call k.
NextCall(q) ==
    IF q.k < Len(q.calls) THEN [q EXCEPT !.k = @ + 1] ELSE [q EXCEPT !.k = 0]

PcAfterCall(q) == IF q.k < Len(q.calls) THEN "pq_dispatch" ELSE "pq_request"

\* A tool that is not found and leaves no turn in the transcript.
NotFoundSilent(q, call) == q

\* lines 449-458: no connected server has the tool; a tool turn with the
\* error text answers the call and the loop goes on to the next call.
NotFound(q, call) ==
    [q EXCEPT !.messages =
        Append(@, ToolTurn(call.id, call.name, "not_found"))]

\* lines 436-471 for the call at k, up to the await of call_tool: the
\* arguments are evaluated, the execution is recorded, the owner is looked
\* up in state.available_tools as it is now.
query_dispatch(r) ==
    /\ req[r].cpc = "pq_dispatch"
    /\ loop_owner = r
    /\ LET q == qs[r]
           call == q.calls[q.k]
           args == Eval(call.arguments)
           q1 == [q EXCEPT !.tool_executions =
                     Append(@, [name |-> call.name, arguments |-> args.value])]
           at == FindTool(available_tools, call.name)
       IN
       IF ~args.ok
       THEN QueryEnd(r, q, Err("exception"))
       ELSE IF at = 0
       THEN /\ qs' = [qs EXCEPT ![r] = NextCall(NotFound(q1, call))]
            /\ req' = [req EXCEPT ![r].cpc = PcAfterCall(q)]
            /\ loop_owner' = loop_owner
       ELSE LET server_name == available_tools[at].server_name IN
            IF ~InServers(servers, server_name)
            THEN QueryEnd(r, q1, Err("exception"))
            ELSE /\ qs' = [qs EXCEPT ![r] =
                            [q1 EXCEPT !.invoked =
                                Append(@, [server |-> server_name,
                                           tool |-> call.name,
                                           id |-> call.id,
                                           st |-> ServerOf(servers, server_name).st])]]
                 /\ req' = [req EXCEPT ![r].cpc = "pq_await"]
                 /\ loop_owner' = ""
    /\ UNCHANGED <<regvars, client, has_key, orphans, chat_history, ca>>

\* query_tool_result that ends the query when the server sent an error
\* payload.
query_tool_result_fatal(r, outcome) ==
    /\ req[r].cpc = "pq_await"
    /\ LoopFree
    /\ LET q == qs[r]
           call == q.calls[q.k]
       IN
       IF outcome = "error_payload"
       THEN QueryEnd(r, q, Err(outcome))
       ELSE /\ qs' = [qs EXCEPT ![r] =
                        NextCall([q EXCEPT !.messages =
                            Append(@, ToolTurn(call.id, call.name, outcome))])]
            /\ req' = [req EXCEPT ![r].cpc = PcAfterCall(q)]
            /\ loop_owner' = r
    /\ UNCHANGED <<regvars, client, has_key, orphans, chat_history, ca>>

\* query_tool_result without the append of lines 482-487.
query_tool_result_no_turn(r, outcome) ==
    /\ req[r].cpc = "pq_await"
    /\ LoopFree
    /\ qs' = [qs EXCEPT ![r] = NextCall(qs[r])]
    /\ req' = [req EXCEPT ![r].cpc = PcAfterCall(qs[r])]
    /\ loop_owner' = r
    /\ UNCHANGED <<regvars, client, has_key, orphans, chat_history, ca>>

\* line 471 resumes with the tool's result, lines 473-487: the content of a
\* result (outcome "result") or of an error payload the server sent
\* (outcome "error_payload").
query_tool_result(r, outcome) ==
    /\ req[r].cpc = "pq_await"
    /\ LoopFree
    /\ LET q == qs[r]
           call == q.calls[q.k]
       IN
       /\ qs' = [qs EXCEPT ![r] =
                   NextCall([q EXCEPT !.messages =
                       Append(@, ToolTurn(call.id, call.name, outcome))])]
       /\ req' = [req EXCEPT ![r].cpc = PcAfterCall(q)]
    /\ loop_owner' = r
    /\ UNCHANGED <<regvars, client, has_key, orphans, chat_history, ca>>

\* query_tool_raise that returns a success result with no content.
query_tool_raise_ok(r) ==
    /\ req[r].cpc = "pq_await"
    /\ LoopFree
    /\ QueryEnd(r, qs[r], QueryOk("", qs[r].tool_executions))
    /\ UNCHANGED <<regvars, client, has_key, orphans, chat_history, ca>>

\* line 471 raises: the channel broke or the session was closed; line 489.
query_tool_raise(r) ==
    /\ req[r].cpc = "pq_await"
    /\ LoopFree
    /\ QueryEnd(r, qs[r], Err("exception"))
    /\ UNCHANGED <<regvars, client, has_key, orphans, chat_history, ca>>
--------------------------------------------------------------------------
\* The dispatch loop over a registry that completed connects have filled

ConnOrders ==
    {<<>>, <<"default">>, <<"aux">>, <<"default", "aux">>, <<"aux", "default">>}

\* The registry after both names were added and the names of cs were
\* connected in that order: by connect-all (the client is initialised) or
\* one by one through /servers/connect (it is not).
InitWith(orders, clients) ==
    \E cs \in orders :
        /\ server_configs =
              [i \in 1..2 |->
                  LET n == <<"default", "aux">>[i] IN
                  [name |-> n, connected |-> InSeq(cs, n)]]
        /\ servers = [i \in DOMAIN cs |->
                        [name |-> cs[i], st |-> "open", tools |-> Catalog(cs[i])]]
        /\ connected_servers = cs
        /\ available_tools =
              rebuild_tools_list([i \in DOMAIN cs |->
                        [name |-> cs[i], st |-> "open", tools |-> Catalog(cs[i])]])
        /\ client \in clients
        /\ has_key = TRUE
        /\ orphans = {}
        /\ chat_history = <<>>
        /\ req = [r \in Reqs |-> IdleReq]
        /\ ca = [r \in Reqs |-> NoCa]
        /\ qs = [r \in Reqs |-> NoQs]
        /\ loop_owner = ""

InitConnected == InitWith(ConnOrders, BOOLEAN)

DispatchNext ==
    \/ \E empty \in BOOLEAN : send_message("r1", empty)
    \/ query_begin("r1")
    \/ query_gateway_error("r1")
    \/ \E c \in Contents : query_final("r1", c)
    \/ \E l \in CallLists(RequestedTools, ArgTexts) : query_tool_calls("r1", l)
    \/ query_dispatch("r1")
    \/ \E o \in {"result", "error_payload"} : query_tool_result("r1", o)
    \/ query_tool_raise("r1")
    \/ Finish("r1")

DispatchSpec == InitConnected /\ [][DispatchNext]_vars
--------------------------------------------------------------------------
\* A query in flight on one request thread while another thread disconnects
\* servers: their coroutines share the event loop and interleave at each
\* other's awaits.

RaceTools == {"add_numbers"}

RaceNext ==
    \/ send_message("r1", FALSE)
    \/ query_begin("r1")
    \/ query_gateway_error("r1")
    \/ query_final("r1", "Done.")
    \/ \E l \in CallLists(RaceTools, {"{'a': 2}"}) : query_tool_calls("r1", l)
    \/ query_dispatch("r1")
    \/ query_tool_result("r1", "result")
    \/ query_tool_raise("r1")
    \/ Finish("r1")
    \/ \E n \in Names : disconnect_server("r2", n)
    \/ disconnect_begin("r2")
    \/ \E ok \in BOOLEAN : disconnect_end("r2", ok)
    \/ Finish("r2")

InitRace == InitWith({<<"default", "aux">>, <<"aux", "default">>}, {TRUE})

RaceSpec == InitRace /\ [][RaceNext]_vars
--------------------------------------------------------------------------
\* Registry requests handled at the same time on two request threads: adds
\* and connects on one, adds, disconnects and removes on the other.

OverlapNext ==
    \/ \E r \in Reqs, n \in Names : add_server_check(r, n, TRUE)
    \/ \E r \in Reqs : add_server_append(r)
    \/ \E n \in Names : connect_server("r1", n, TRUE)
    \/ \E ok \in BOOLEAN : connect_open("r1", ok)
    \/ \E ok \in BOOLEAN : connect_init("r1", ok)
    \/ \E n \in Names : disconnect_server("r2", n)
    \/ \E n \in Names : remove_server_filter("r2", n)
    \/ remove_server_check("r2")
    \/ disconnect_begin("r2")
    \/ \E ok \in BOOLEAN : disconnect_end("r2", ok)
    \/ \E r \in Reqs : Finish(r)

InitOverlap == InitWith({<<"default">>, <<"default", "aux">>}, {TRUE})

OverlapSpec == InitOverlap /\ [][OverlapNext]_vars
--------------------------------------------------------------------------
\* Two /send requests handled at the same time on two request threads.

TwoQueriesNext ==
    \/ \E r \in Reqs : send_message(r, FALSE)
    \/ \E r \in Reqs : query_begin(r)
    \/ \E r \in Reqs : query_gateway_error(r)
    \/ \E r \in Reqs : query_final(r, "Done.")
    \/ \E r \in Reqs, l \in CallLists(RaceTools, {"{'a': 2}"}) :
          query_tool_calls(r, l)
    \/ \E r \in Reqs : query_dispatch(r)
    \/ \E r \in Reqs : query_tool_result(r, "result")
    \/ \E r \in Reqs : query_tool_raise(r)
    \/ \E r \in Reqs : Finish(r)

InitTwoQueries == InitWith({<<"default">>}, {TRUE})

TwoQueriesSpec == InitTwoQueries /\ [][TwoQueriesNext]_vars
--------------------------------------------------------------------------
\* One front-end whose requests can run into the deadline of their handler
\* (future.result(timeout=...)): the handler answers with an error and the
\* coroutine goes on in the event loop.

DeadlineNext ==
    \/ \E n \in Names : add_server_check("r1", n, TRUE)
    \/ add_server_append("r1")
    \/ \E n \in Names : connect_server("r1", n, TRUE)
    \/ \E ok \in BOOLEAN : connect_open("r1", ok)
    \/ \E ok \in BOOLEAN : connect_init("r1", ok)
    \/ \E n \in Names : disconnect_server("r1", n)
    \/ disconnect_begin("r1")
    \/ \E ok \in BOOLEAN : disconnect_end("r1", ok)
    \/ Timeout("r1")
    \/ Finish("r1")

DeadlineSpec == Init /\ [][DeadlineNext]_vars
--------------------------------------------------------------------------
\* Properties

\* No request is being handled and no coroutine is running.
Quiescent ==
    \A r \in Reqs : req[r].tpc \in {"idle", "done"} /\ req[r].cpc = "none"

ListedNames == {available_tools[i].name : i \in DOMAIN available_tools}

AllTools == RequestedTools \cup {"echo", "get_weather_alerts"}

\* The aggregated list is, entry for entry, the tools of the entries of
\* state.servers.
AggregateMatchesServers ==
    /\ Len(available_tools) = 2 * Len(servers)
    /\ \A i \in DOMAIN servers : \A j \in 1..2 :
          available_tools[2 * (i - 1) + j] =
              [name |-> Catalog(servers[i].name)[j],
               server_name |-> servers[i].name]

\* C1: after completed add-server, connect, connect-all, disconnect and
\* remove-server operations, the aggregated tool list holds exactly the
\* tools of the servers that are connected, each stamped with its server,
\* and no tool of a server that was removed.
C1_ToolsOfConnectedOnly ==
    Quiescent =>
        /\ AggregateMatchesServers
        /\ \A i \in DOMAIN available_tools :
              /\ InServers(servers, available_tools[i].server_name)
              /\ HasConfig(server_configs, available_tools[i].server_name)

\* C2: owner resolution is total over the aggregated list and empty outside
\* it: a listed tool name resolves to an entry of that name whose server is
\* in the live-session map, and a name that is not listed resolves to none.
C2_OwnerResolution ==
    \A t \in AllTools :
        LET i == FindTool(available_tools, t) IN
        IF t \in ListedNames
        THEN /\ i \in DOMAIN available_tools
             /\ available_tools[i].name = t
             /\ InServers(servers, available_tools[i].server_name)
        ELSE i = 0

\* A tool call was routed while a disconnect had changed the registry: one
\* listed name still resolves and another resolves no more.
C2_Witness ==
    /\ Len(qs["r1"].invoked) > 0
    /\ Len(servers) = 1
    /\ FindTool(available_tools, "add_numbers") # 0
    /\ FindTool(available_tools, "echo") = 0

\* C3: when the gateway's first response carries no tool calls, the loop
\* has made exactly one gateway call, has invoked no session, and has
\* returned that response's content unchanged with no tool invocation.
C3_PlainAnswer ==
    \A r \in Reqs :
        LET q == qs[r] IN
        (Len(q.messages) >= 2 /\ q.messages[2].calls = <<>>) =>
            /\ q.loop_count = 1
            /\ q.invoked = <<>>
            /\ Len(q.messages) = 2
            /\ req[r].cpc = "none"
            /\ req[r].resp = QueryOk(q.messages[2].content, <<>>)

C3_Witness ==
    /\ req["r1"].tpc = "done"
    /\ req["r1"].resp.status = "success"
    /\ qs["r1"].loop_count = 1
    /\ qs["r1"].messages[2].content = "The answer is 5."

\* The query is over and its response is not yet sent.
Answered(r) == req[r].op = "send" /\ req[r].tpc = "done" /\ req[r].cpc = "none"

\* C4: when the gateway requests one resolvable tool call and then returns
\* plain content, the transcript is user, assistant with the call, tool
\* result, final assistant; there is one tool-invocation record, with the
\* requested name and arguments; the result is the final content.
C4_OneToolCall ==
    \A r \in Reqs :
        LET q == qs[r]
            m == q.messages
        IN
        (/\ Answered(r)
         /\ q.loop_count = 2
         /\ Len(m) >= 2
         /\ Len(m[2].calls) = 1
         /\ Len(q.invoked) = 1
         /\ m[Len(m)].role = "assistant"
         /\ m[Len(m)].calls = <<>>) =>
            /\ Len(m) = 4
            /\ [i \in 1..4 |-> m[i].role] = <<"user", "assistant", "tool", "assistant">>
            /\ m[3].id = m[2].calls[1].id
            /\ m[3].name = m[2].calls[1].name
            /\ m[3].content \in {"result", "error_payload"}
            /\ q.tool_executions =
                  <<[name |-> m[2].calls[1].name, arguments |-> <<"a", 2>>]>>
            /\ q.invoked[1].tool = m[2].calls[1].name
            /\ req[r].resp = QueryOk(m[4].content, q.tool_executions)

C4_Witness ==
    /\ Answered("r1")
    /\ qs["r1"].loop_count = 2
    /\ Len(qs["r1"].invoked) = 1
    /\ Len(qs["r1"].messages) = 4
    /\ qs["r1"].messages[2].calls[1].name = "add_numbers"
    /\ req["r1"].resp.msg = "The answer is 5."

\* The call the for loop of a query is at.
CurrentCall(r) == qs[r].calls[qs[r].k]

\* C5: a requested tool call whose name is not in the aggregated list
\* appends one tool turn with error content carrying that call's id,
\* invokes call_tool on no session, and the loop goes on to the remaining
\* calls or the next gateway request.
C5_UnknownToolContinues ==
    [][\A r \in Reqs :
          (/\ req[r].cpc = "pq_dispatch"
           /\ FindTool(available_tools, CurrentCall(r).name) = 0
           /\ req'[r] # req[r]) =>
              /\ qs'[r].messages =
                    Append(qs[r].messages,
                           ToolTurn(CurrentCall(r).id, CurrentCall(r).name,
                                    "not_found"))
              /\ qs'[r].invoked = qs[r].invoked
              /\ req'[r].cpc =
                    IF qs[r].k < Len(qs[r].calls) THEN "pq_dispatch"
                    ELSE "pq_request"]_vars

\* A cap on the gateway round trips of one query that the last round the
\* model follows exceeds.
LoopCap == MaxRounds - 1

\* C6: no query makes more gateway round trips than a fixed cap; at the
\* cap the loop ends with a LoopLimitExceeded error.
C6_LoopLimit ==
    \A r \in Reqs :
        /\ qs[r].loop_count <= LoopCap
        /\ (qs[r].loop_count = LoopCap /\ req[r].cpc = "pq_request") =>
              req[r].resp = Err("LoopLimitExceeded")

\* C7: a query returns a success result only in the step right after a
\* gateway response without tool calls, with that response's content; every
\* other step that ends the query gives an error result.
C7_SuccessOnlyAfterPlainResponse ==
    [][\A r \in Reqs :
          (req[r].op = "send" /\ req[r].cpc # "none" /\ req'[r].cpc = "none") =>
              LET m == qs'[r].messages
                  plain ==
                      /\ req[r].cpc = "pq_request"
                      /\ m = Append(qs[r].messages, m[Len(m)])
                      /\ m[Len(m)].role = "assistant"
                      /\ m[Len(m)].calls = <<>>
              IN
              IF plain
              THEN req'[r].resp =
                      QueryOk(m[Len(m)].content, qs[r].tool_executions)
              ELSE req'[r].resp.status = "error"]_vars

\* A query has returned success after two rounds of tool calls.
C7_Witness ==
    /\ Answered("r1")
    /\ req["r1"].resp.status = "success"
    /\ qs["r1"].loop_count = 3
    /\ Len(qs["r1"].invoked) = 2

\* The place of the last assistant turn in a transcript, 0 when none.
LastAssistant(m) ==
    LET A == {i \in DOMAIN m : m[i].role = "assistant"} IN
    IF A = {} THEN 0 ELSE CHOOSE i \in A : \A j \in A : j <= i

\* C8: the calls of one gateway response are executed one at a time in the
\* order listed: when call k is dispatched or in flight the tool turns of
\* calls 1..k-1, and no others, follow the assistant turn, in the calls'
\* order; the next gateway request comes after the tool turns of all calls.
C8_CallsInOrder ==
    \A r \in Reqs :
        LET q == qs[r]
            m == q.messages
            a == LastAssistant(m)
        IN
        /\ \A i \in DOMAIN m : \A j \in 1..Len(m[i].calls) :
              i + j <= Len(m) =>
                  /\ m[i + j].role = "tool"
                  /\ m[i + j].id = m[i].calls[j].id
                  /\ m[i + j].name = m[i].calls[j].name
        /\ req[r].cpc \in {"pq_dispatch", "pq_await"} =>
              /\ m[a].calls = q.calls
              /\ Len(m) = a + q.k - 1
        /\ req[r].cpc = "pq_await" =>
              q.invoked[Len(q.invoked)].id = q.calls[q.k].id
        /\ (req[r].cpc = "pq_request" /\ a > 0) =>
              Len(m) = a + Len(m[a].calls)

\* The second of three calls of one response is in flight, after the first
\* call's tool turn and before the third call.
C8_Witness ==
    /\ req["r1"].cpc = "pq_await"
    /\ Len(qs["r1"].calls) = 3
    /\ qs["r1"].k = 2
    /\ Len(qs["r1"].messages) = 3
    /\ qs["r1"].messages[3].id = qs["r1"].calls[1].id

\* C9: in no reachable state is a server's config deleted while the server
\* is still in the live-session map.
C9_DisconnectBeforeDelete ==
    \A n \in Names : InServers(servers, n) => HasConfig(server_configs, n)

\* C10: the session on which the loop invokes call_tool belongs to a
\* connected server whose channel is open: never one that a disconnect has
\* closed or has started to close.
C10_CallOnLiveSession ==
    \A r \in Reqs : \A i \in DOMAIN qs[r].invoked :
        qs[r].invoked[i].st = "open"

\* The query of r is between its start and its result.
InFlight(r) == req[r].cpc \in {"pq_request", "pq_dispatch", "pq_await"}

\* C11: the tool-schema list of a query is built once at its start, and
\* every gateway request of the query sends that same list, also when a
\* server is disconnected while the query is in flight.
C11_SchemasFrozen ==
    /\ [](\A r \in Reqs : \A i \in DOMAIN qs[r].sent :
            qs[r].sent[i] = qs[r].tools)
    /\ [][\A r \in Reqs :
            (InFlight(r) /\ qs'[r].messages # <<>>) =>
                qs'[r].tools = qs[r].tools]_vars

\* A second gateway request was made after a disconnect changed the
\* aggregated list under the query.
C11_Witness ==
    /\ InFlight("r1")
    /\ Len(qs["r1"].sent) = 2
    /\ qs["r1"].tools # ToolSchemas(available_tools)

\* C12: registry changes made while a query is in flight do not change how
\* its tool calls are routed: every call of the query to one tool name goes
\* to the owner the name had when the query started, so to one and the same
\* server.
C12_RoutingStable ==
    \A r \in Reqs : \A i, j \in DOMAIN qs[r].invoked :
        qs[r].invoked[i].tool = qs[r].invoked[j].tool =>
            qs[r].invoked[i].server = qs[r].invoked[j].server

\* The places of a tool name in the aggregated list.
EntriesOf(t) == {i \in DOMAIN available_tools : available_tools[i].name = t}

\* The connected server registered last among those whose catalog has t.
LaterOwner(t) ==
    LET P == {i \in DOMAIN server_configs :
                 /\ InServers(servers, server_configs[i].name)
                 /\ InSeq(ServerOf(servers, server_configs[i].name).tools, t)}
    IN server_configs[CHOOSE i \in P : \A j \in P : j <= i].name

\* C13: when two connected servers expose a tool of the same name, the
\* aggregated list holds one entry for the name, owned by the server
\* registered later, and a call to the name is routed to that server.
C13_LaterServerOwns ==
    \A r \in Reqs : \A e \in DOMAIN qs[r].invoked :
        LET t == qs[r].invoked[e].tool IN
        /\ Cardinality(EntriesOf(t)) = 1
        /\ \A i \in EntriesOf(t) :
              available_tools[i].server_name = LaterOwner(t)
        /\ qs[r].invoked[e].server = LaterOwner(t)

\* C14: an add-server request with a name that is already registered, or
\* without a name or command, is answered with an error and leaves the
\* config list, the live-session map, the connected list and the aggregated
\* list as they were; any other add-server request goes on to the append.
C14_AddRejected ==
    [][\A r \in Reqs :
          (Free(r) /\ req'[r].op = "add") =>
              IF \/ req'[r].resp = Err("required")
                 \/ HasConfig(server_configs, req'[r].name)
              THEN /\ req'[r].tpc = "done"
                   /\ req'[r].resp.status = "error"
                   /\ UNCHANGED regvars
              ELSE /\ req'[r].tpc = "add_append"
                   /\ req'[r].resp = NoResp]_vars

\* An add of the name of a connected server was refused.
C14_Witness ==
    /\ req["r1"].op = "add"
    /\ req["r1"].resp = Err("exists")
    /\ InServers(servers, req["r1"].name)
    /\ Len(server_configs) = 2

\* C15: a remove-server request for a name that no config has is answered
\* with a not-found error and changes no registry state.
C15_RemoveNotFound ==
    [][\A r \in Reqs :
          (/\ Free(r)
           /\ req'[r].op = "remove"
           /\ ~HasConfig(server_configs, req'[r].name)) =>
              /\ req'[r].tpc = "done"
              /\ req'[r].resp = Err("not_found")
              /\ UNCHANGED regvars]_vars

\* The connected flag of the config named n; FALSE when no config has the name.
ConfigConnected(cfgs, n) ==
    \E i \in DOMAIN cfgs : cfgs[i].name = n /\ cfgs[i].connected

\* The coroutine of r's /servers/connect request ends in this step with an
\* error result.
ConnectFails(r) ==
    /\ req[r].op = "connect"
    /\ req[r].cpc \in {"cs_open", "cs_init"}
    /\ req'[r].cpc = "none"
    /\ req'[r].resp.status = "error"

\* C16: when connect(name) fails, the caller gets an error result, the
\* server is not connected afterwards (no session in the live-session map,
\* not in the connected list, flag false), and the aggregated list and every
\* other server's state are unchanged.
C16_ConnectFailure ==
    [][\A r \in Reqs :
          ConnectFails(r) =>
              /\ ~InServers(servers', req[r].name)
              /\ ~InSeq(connected_servers', req[r].name)
              /\ ~ConfigConnected(server_configs', req[r].name)
              /\ UNCHANGED regvars]_vars

\* C17: when a connect fails after its channel was opened (the handshake or
\* the catalog fetch fails), the channel has been closed by the time the
\* connect returns: the failed attempt leaves no open channel behind.
C17_ChannelReleased ==
    [][\A r \in Reqs :
          (ConnectFails(r) /\ req[r].cpc = "cs_init") =>
              req[r].name \notin orphans']_vars

\* The connect-all of r has returned its result and the response is not
\* yet sent.
ConnectAllDone(r) ==
    /\ req[r].op = "connect_all"
    /\ req[r].tpc = "done"
    /\ req[r].resp.msg = "connected_all"

\* C18: connect-all attempts every config that is not connected, whatever
\* the outcome of the attempts before it: when it returns, a config that is
\* still not connected is one whose own connect was attempted and failed,
\* every server whose connect succeeded is connected, and no config was
\* attempted twice.
C18_ConnectAllIndependent ==
    \A r \in Reqs :
        ConnectAllDone(r) =>
            LET R == ca[r].results IN
            /\ \A i \in DOMAIN server_configs :
                  ~server_configs[i].connected =>
                      \E k \in DOMAIN R :
                          /\ R[k].name = server_configs[i].name
                          /\ R[k].result.status = "error"
            /\ \A k \in DOMAIN R :
                  R[k].result.status = "success" =>
                      /\ InServers(servers, R[k].name)
                      /\ InSeq(connected_servers, R[k].name)
                      /\ ConfigConnected(server_configs, R[k].name)
            /\ \A k, l \in DOMAIN R : R[k].name = R[l].name => k = l

\* The first server's connect failed and the second server's succeeded.
C18_Witness ==
    /\ ConnectAllDone("r1")
    /\ Len(ca["r1"].results) = 2
    /\ ca["r1"].results[1].result.status = "error"
    /\ ca["r1"].results[2].result.status = "success"

\* What the dict of lines 301-306 says of the server n: n is in its
\* 'servers' list, or the dict does not mention it.
ReportOf(resp, n) == IF InSeq(resp.data[1], n) THEN "success" ELSE "none"

\* C19: the result connect-all returns reports, for each server it
\* attempted, whether that connect succeeded or failed.
C19_PerServerReport ==
    \A r \in Reqs :
        ConnectAllDone(r) =>
            \A k \in DOMAIN ca[r].results :
                ReportOf(req[r].resp, ca[r].results[k].name) =
                    ca[r].results[k].result.status

\* The coroutine of r's /servers/disconnect request ends in this step with
\* a success result.
DisconnectSucceeds(r) ==
    /\ req[r].op = "disconnect"
    /\ req[r].cpc \in {"dc_start", "dc_closing"}
    /\ req'[r].cpc = "none"
    /\ req'[r].resp.status = "success"

\* The entries of the aggregated list at that are stamped with server m.
ToolsOf(at, m) == SelectSeq(at, LAMBDA t : t.server_name = m)

\* C20: after a disconnect(name) that succeeds, name is in neither the
\* live-session map nor the connected list, its config's flag is false and
\* none of its tools is in the aggregated list; the session, the connected
\* flag and the tools of every other server are as before.
C20_DisconnectFrame ==
    [][\A r \in Reqs :
          DisconnectSucceeds(r) =>
              LET n == req[r].name IN
              /\ ~InServers(servers', n)
              /\ ~InSeq(connected_servers', n)
              /\ ~ConfigConnected(server_configs', n)
              /\ ToolsOf(available_tools', n) = <<>>
              /\ [i \in DOMAIN server_configs' |-> server_configs'[i].name] =
                    [i \in DOMAIN server_configs |-> server_configs[i].name]
              /\ \A m \in Names \ {n} :
                    /\ InServers(servers', m) = InServers(servers, m)
                    /\ InServers(servers, m) =>
                          ServerOf(servers', m) = ServerOf(servers, m)
                    /\ InSeq(connected_servers', m) = InSeq(connected_servers, m)
                    /\ ConfigConnected(server_configs', m) =
                          ConfigConnected(server_configs, m)
                    /\ ToolsOf(available_tools', m) = ToolsOf(available_tools, m)]_vars

\* One of two connected servers was disconnected and the other is still
\* connected with its tools.
C20_Witness ==
    /\ req["r1"].op = "disconnect"
    /\ req["r1"].resp = Ok("disconnected")
    /\ Len(servers) = 1
    /\ Len(available_tools) = 2
    /\ ~InServers(servers, req["r1"].name)

\* The gateway call of r's query fails in this step.
GatewayFails(r) ==
    /\ req[r].cpc = "pq_request"
    /\ req'[r].cpc = "none"
    /\ req'[r].resp.status = "error"

\* C21: when the gateway call of a query fails, the query ends with an
\* error result that the handler returns to the caller, and the configs,
\* the live-session map, the connected list and the aggregated list are
\* what they were before the query: no step of the query changes them.
C21_GatewayFailure ==
    [][\A r \in Reqs :
          /\ GatewayFails(r) =>
                /\ req'[r].tpc = "done"
                /\ req'[r].resp = Err("exception")
          /\ ((req[r].cpc = "pq_start" \/ InFlight(r)) /\ req'[r] # req[r]) =>
                UNCHANGED regvars]_vars

\* The second gateway request of a query failed, after a tool call.
C21_Witness ==
    /\ Answered("r1")
    /\ req["r1"].resp = Err("exception")
    /\ Len(qs["r1"].sent) = 2
    /\ qs["r1"].loop_count = 2
    /\ Len(qs["r1"].messages) = 3

\* C22: when the arguments of a requested tool call cannot be parsed, only
\* that call fails: a tool turn with the parse error is appended for the
\* call's id and the loop goes on to the remaining calls or the next gateway
\* request; the query does not end.
C22_ParseErrorContained ==
    [][\A r \in Reqs :
          (/\ req[r].cpc = "pq_dispatch"
           /\ ~Eval(CurrentCall(r).arguments).ok
           /\ req'[r] # req[r]) =>
              /\ Len(qs'[r].messages) = Len(qs[r].messages) + 1
              /\ qs'[r].messages[Len(qs'[r].messages)].role = "tool"
              /\ qs'[r].messages[Len(qs'[r].messages)].id = CurrentCall(r).id
              /\ req'[r].cpc \in {"pq_dispatch", "pq_request"}]_vars

\* C23: when the server answers a tool call, with a result or with an error
\* payload, the answer becomes the content of the tool turn for the call's
\* id and the loop goes on to the next call or gateway request; the query
\* ends at a tool call only when call_tool itself raises.
C23_ErrorPayloadContinues ==
    [][\A r \in Reqs :
          (req[r].cpc = "pq_await" /\ req'[r] # req[r]) =>
              \/ /\ \E c \in {"result", "error_payload"} :
                       qs'[r].messages =
                           Append(qs[r].messages,
                                  ToolTurn(CurrentCall(r).id,
                                           CurrentCall(r).name, c))
                 /\ req'[r].cpc =
                       IF qs[r].k < Len(qs[r].calls) THEN "pq_dispatch"
                       ELSE "pq_request"
                 /\ req'[r].resp = NoResp
              \/ /\ req'[r].cpc = "none"
                 /\ req'[r].resp = Err("exception")
                 /\ qs'[r].messages = qs[r].messages]_vars

\* A query whose tool call was answered with an error payload went on to a
\* final answer.
C23_Witness ==
    /\ Answered("r1")
    /\ req["r1"].resp.status = "success"
    /\ Len(qs["r1"].messages) = 4
    /\ qs["r1"].messages[3].content = "error_payload"

\* The coroutine of r's /servers/connect request ends in this step with a
\* success result.
ConnectSucceeds(r) ==
    /\ req[r].op = "connect"
    /\ req[r].cpc = "cs_init"
    /\ req'[r].cpc = "none"
    /\ req'[r].resp.status = "success"

\* C24: at most one open session exists per server name: a connect that
\* stores a session for a name that already has one has closed the session
\* it replaces, so it leaves no open channel outside the live-session map.
C24_OneSessionPerName ==
    [][\A r \in Reqs : ConnectSucceeds(r) => orphans' = orphans]_vars

\* r's connect, disconnect or remove-server has started and not finished:
\* its coroutine is suspended at an await after its first step, or its
\* handler has filtered the config list and not yet answered.
Started(r) ==
    /\ req[r].op \in {"connect", "disconnect", "remove"}
    /\ \/ req[r].cpc \in {"cs_init", "dc_closing"}
       \/ req[r].tpc = "rm_check"

\* r's connect, disconnect or remove-server takes a step that changes the
\* registry.
ChangesRegistry(r) ==
    /\ req'[r].op \in {"connect", "disconnect", "remove"}
    /\ (req'[r].tpc # req[r].tpc \/ req'[r].cpc # req[r].cpc)
    /\ regvars' # regvars

\* C25: connect, disconnect and remove-server exclude each other: none of
\* them changes the configs, the live-session map, the connected list or
\* the aggregated list while another has started and not yet finished.
C25_MutualExclusion ==
    [][\A r, o \in Reqs :
          (r # o /\ Started(o)) => ~ChangesRegistry(r)]_vars

\* C26: at most one dispatch loop is in flight at any time: no query is
\* started while the loop of an earlier query has not finished.
C26_OneQueryAtATime ==
    \A r, o \in Reqs : (InFlight(r) /\ InFlight(o)) => r = o

\* C27: server names stay unique in the config list: no two entries of
\* server_configs carry the same name, whatever the interleaving of the
\* add-server requests of the two request threads.
C27_UniqueNames ==
    \A i, j \in DOMAIN server_configs :
        server_configs[i].name = server_configs[j].name => i = j

\* C28: the tool-invocation log of a query holds exactly one record per
\* tool call that was invoked on a server session, in the order of the
\* invocations: a requested call whose owner was not resolved adds none.
C28_LogMatchesInvocations ==
    \A r \in Reqs :
        LET q == qs[r] IN
        /\ Len(q.tool_executions) = Len(q.invoked)
        /\ \A i \in DOMAIN q.tool_executions :
              q.tool_executions[i].name = q.invoked[i].tool

\* The places of the assistant turns of a transcript, the place of the
\* first assistant turn after place i (one past the end when there is
\* none), and the places of the tool turns that answer a call id.
AssistantAt(m) == {i \in DOMAIN m : m[i].role = "assistant"}

NextAssistant(m, i) ==
    LET L == {j \in AssistantAt(m) : j > i} IN
    IF L = {} THEN Len(m) + 1 ELSE CHOOSE j \in L : \A k \in L : j <= k

Answers(m, id) == {t \in DOMAIN m : m[t].role = "tool" /\ m[t].id = id}

WellFormed(m) ==
    /\ Len(m) >= 1
    /\ m[1].role = "user"
    /\ \A i \in AssistantAt(m) : \A c \in DOMAIN m[i].calls :
          LET A == Answers(m, m[i].calls[c].id) IN
          /\ Cardinality(A) = 1
          /\ \A t \in A : i < t /\ t < NextAssistant(m, i)

\* C29: whenever the dispatch loop is about to send a request to the
\* gateway, the transcript it sends starts with the user turn, and every
\* tool call id of an earlier assistant turn is answered by exactly one
\* tool turn with that id, after that assistant turn and before the next.
C29_TranscriptWellFormed ==
    \A r \in Reqs :
        req[r].cpc = "pq_request" => WellFormed(qs[r].messages)

\* A second request is due after a response with two calls, one for a tool
\* no server has and one that a server answered.
C29_Witness ==
    /\ req["r1"].cpc = "pq_request"
    /\ \E i, j \in DOMAIN qs["r1"].messages :
          /\ qs["r1"].messages[i].role = "tool"
          /\ qs["r1"].messages[i].content = "not_found"
          /\ qs["r1"].messages[j].role = "tool"
          /\ qs["r1"].messages[j].content = "result"

\* C30: a query submitted while no server is connected is rejected with an
\* error: the web handler answers "not connected", starts no coroutine for
\* it (so no gateway request and no tool call is made) and leaves the chat
\* history as it was; the desktop front-end shows its warning and submits
\* nothing.
C30_NotConnectedRejected ==
    /\ [](\A r \in Reqs :
            req[r].resp = Err("not_connected") =>
                /\ req[r].cpc = "none"
                /\ qs[r].sent = <<>>
                /\ qs[r].invoked = <<>>)
    /\ [][\A r \in Reqs :
            (Len(connected_servers) = 0 /\ Free(r) /\ req'[r].op = "send") =>
                /\ req'[r].resp = Err("not_connected")
                /\ req'[r].cpc = "none"
                /\ qs'[r] = NoQs
                /\ chat_history' = chat_history]_vars
    /\ [](/\ gui_send_message(FALSE, FALSE) = "warning"
          /\ \A e \in BOOLEAN : gui_send_message(FALSE, e) # "submitted")

\* Both servers were disconnected after an earlier query; the next query is
\* answered "not connected" and the history still holds the one turn.
C30_Witness ==
    /\ req["r1"].resp = Err("not_connected")
    /\ connected_servers = <<>>
    /\ Len(chat_history) = 1

\* The names of the configs whose connected flag is true.
FlaggedNames(cfgs) == {cfgs[i].name : i \in {j \in DOMAIN cfgs : cfgs[j].connected}}

\* The names of the connected list.
ConnectedNames(cs) == {cs[i] : i \in DOMAIN cs}

\* C31: once every registry operation has completed, the three records of
\* connection state agree: the keys of the live-session map, the names of
\* the connected list (none of them twice) and the names of the configs
\* flagged connected are one set.
C31_RecordsAgree ==
    Quiescent =>
        /\ NamesOf(servers) = ConnectedNames(connected_servers)
        /\ ConnectedNames(connected_servers) = FlaggedNames(server_configs)
        /\ \A i, j \in DOMAIN connected_servers :
              connected_servers[i] = connected_servers[j] => i = j

\* C32: every server with a live session has a config, in every
\* interleaving: once the requests have completed, no connected session
\* (an entry of the live-session map with an open channel, its tools in the
\* aggregated list) is left for a name whose config was deleted while its
\* connect was in flight.
C32_SessionsHaveConfigs ==
    Quiescent =>
        \A i \in DOMAIN servers :
            servers[i].st = "open" => HasConfig(server_configs, servers[i].name)

\* C33: whenever the web front-end would accept a query (the connected
\* list is not empty), the LLM client has been initialised, whichever of
\* connect(name) and connect-all connected the servers.
C33_ClientReady ==
    Len(connected_servers) # 0 => client

\* The places of the aggregated list that name server n.
ListedFor(at, n) == {i \in DOMAIN at : at[i].server_name = n}

\* C34: a connect(name) request that was answered with an error, the
\* expiry of the handler's deadline included, does not afterwards add the
\* server to the live-session map, the connected list or the aggregated
\* tool list.
C34_FailedConnectAddsNothing ==
    [][\A r \in Reqs :
        (req[r].op = "connect" /\ req[r].resp.status = "error") =>
            LET n == req[r].name IN
            /\ InServers(servers', n) => InServers(servers, n)
            /\ InSeq(connected_servers', n) => InSeq(connected_servers, n)
            /\ ListedFor(available_tools', n) # {} =>
                  ListedFor(available_tools, n) # {}]_vars

====
